---- MODULE Spec2Model ----
(***************************************************************************)
(* Particle restart (checkpoint replay) of src/src/particle_restart.cpp:   *)
(* read_particle_restart decodes one particle and the run context from a   *)
(* restart file, run_particle_restart reconstructs the particle's random   *)
(* number seed, transports the particle and prints it.                     *)
(*                                                                         *)
(* Energies are fixed-point numbers counted in halves (3 stands for 1.5),  *)
(* so that the double -> int conversion of line 54 truncates.              *)
(***************************************************************************)
EXTENDS Integers, Sequences, FiniteSets, TLC

VARIABLES
  pc,                \* position of run_particle_restart
  error,             \* why the process aborted: "none", "decode", "runmode",
                     \* "transport"
  file,              \* the restart file's datasets
  verbosity,         \* settings::verbosity
  run_CE,            \* settings::run_CE
  write_all_tracks,  \* settings::write_all_tracks
  current_batch,     \* simulation::current_batch
  gen_per_batch,     \* settings::gen_per_batch
  current_gen,       \* simulation::current_gen
  n_particles,       \* settings::n_particles
  total_gen,         \* simulation::total_gen
  tallies,           \* model::tallies
  tallies0,          \* history: model::tallies at entry
  p,                 \* the local Particle p
  previous_run_mode, \* the local int previous_run_mode
  overall_gen,       \* history: what overall_generation() returned
  seeds,             \* history: the arguments of the calls of set_particle_seed
  transported,       \* history: the particles p.transport() was called on
  printed            \* history: the particles print_particle was called on

vars == <<pc, error, file, verbosity, run_CE, write_all_tracks, current_batch,
          gen_per_batch, current_gen, n_particles, total_gen, tallies,
          tallies0, p, previous_run_mode, overall_gen, seeds, transported,
          printed>>

(***************************************************************************)
(* Bounds of the model.                                                    *)
(***************************************************************************)
MaxId == 1
MaxParticles == 1
MaxTotalGen == 2
MaxOverallGen == 3
MaxTallies == 1
NumGroups == 2

(***************************************************************************)
(* Program constants and data.                                             *)
(***************************************************************************)
MaxVerbosity == 10
NFields == 11

RUN_MODE_EIGENVALUE == "RUN_MODE_EIGENVALUE"
RUN_MODE_FIXEDSOURCE == "RUN_MODE_FIXEDSOURCE"

\* What an int that was never assigned can hold: either of the two tags the
\* switch recognises, or any other value.
Indeterminate == {RUN_MODE_EIGENVALUE, RUN_MODE_FIXEDSOURCE, "other"}

RecognizedModes == {"eigenvalue", "fixed source"}
ModeStrings == RecognizedModes \cup {"unknown"}

ParticleIds == (1..MaxId) \cup {9, 47}
Populations == (1..MaxParticles) \cup {1000}
TotalGens == 0..MaxTotalGen
OverallGens == 1..MaxOverallGen
Groups == 0..(NumGroups - 1)
\* Stored energies, in halves: every value whose integer part is a group.
Energies == 0..(2 * NumGroups - 1)

\* data::mg.energy_bin_avg_, in halves; no entry is a stored energy.
energy_bin_avg == [g \in Groups |-> 4 * NumGroups - 2 * g + 1]

\* static_cast<int> of a non-negative double: truncation.
ToInt(e) == e \div 2

\* Particle p; before anything is read into it.
DefaultParticle ==
  [id_ |-> 0, type_ |-> 0, wgt_ |-> 0, E_ |-> 0, g_ |-> 0,
   r |-> <<0, 0, 0>>, u |-> <<0, 0, 0>>,
   wgt_last_ |-> 0, r_last_current_ |-> <<0, 0, 0>>, r_last_ |-> <<0, 0, 0>>,
   u_last_ |-> <<0, 0, 0>>, E_last_ |-> 0, g_last_ |-> 0,
   write_track_ |-> FALSE, alive_ |-> TRUE]

Checkpoints ==
  [current_batch : {2}, generations_per_batch : {3}, current_generation : {1},
   n_particles : Populations, run_mode : ModeStrings, id : ParticleIds,
   type : {1}, weight : {1}, energy : Energies,
   xyz : {<<1, 2, 3>>}, uvw : {<<0, 0, 1>>}]

TallySets == {[i \in 1..n |-> i] : n \in 0..MaxTallies}

Init ==
  /\ pc = "Idle"
  /\ error = "none"
  /\ file \in Checkpoints
  /\ verbosity = 7
  /\ run_CE \in BOOLEAN
  /\ write_all_tracks \in BOOLEAN
  /\ current_batch = 0
  /\ gen_per_batch = 1
  /\ current_gen = 0
  /\ n_particles = 0
  /\ total_gen \in TotalGens
  /\ tallies \in TallySets
  /\ tallies0 = tallies
  /\ p = DefaultParticle
  /\ previous_run_mode = "other"
  /\ overall_gen = 0
  /\ seeds = <<>>
  /\ transported = <<>>
  /\ printed = <<>>

(***************************************************************************)
(* read_particle_restart                                                   *)
(***************************************************************************)

\* Lines 38-42: the run mode string sets the caller's variable, or leaves it.
DecodeMode(mode, prev) ==
  IF mode = "eigenvalue" THEN RUN_MODE_EIGENVALUE
  ELSE IF mode = "fixed source" THEN RUN_MODE_FIXEDSOURCE
  ELSE prev

\* Lines 43-50: the particle once the first k datasets of the file are read
\* (datasets 6..11 are the particle's).
ReadFields(q, f, k) ==
  [q EXCEPT !.id_   = IF k >= 6 THEN f.id ELSE @,
            !.type_ = IF k >= 7 THEN f.type ELSE @,
            !.wgt_  = IF k >= 8 THEN f.weight ELSE @,
            !.E_    = IF k >= 9 THEN f.energy ELSE @,
            !.r     = IF k >= 10 THEN f.xyz ELSE @,
            !.u     = IF k >= 11 THEN f.uvw ELSE @]

\* Lines 52-56: group and group-average energy in multi-group mode.
ConvertMG_always(q, ce) ==
  [q EXCEPT !.g_ = ToInt(q.E_), !.E_ = energy_bin_avg[ToInt(q.E_)]]

ConvertMG(q, ce) ==
  IF ~ce
    THEN [q EXCEPT !.g_ = ToInt(q.E_), !.E_ = energy_bin_avg[ToInt(q.E_)]]
    ELSE q

\* Lines 58-64: the particle's last attributes.
SetLast_noGroup(q) ==
  [q EXCEPT !.wgt_last_ = q.wgt_, !.r_last_current_ = q.r, !.r_last_ = q.r,
            !.u_last_ = q.u, !.E_last_ = q.E_]

SetLast(q) ==
  [q EXCEPT !.wgt_last_ = q.wgt_, !.r_last_current_ = q.r, !.r_last_ = q.r,
            !.u_last_ = q.u, !.E_last_ = q.E_, !.g_last_ = q.g_]

\* Lines 32-35: the globals once the first k datasets are read.
ReadContext(k) ==
  /\ current_batch' = IF k >= 1 THEN file.current_batch ELSE current_batch
  /\ gen_per_batch' = IF k >= 2 THEN file.generations_per_batch ELSE gen_per_batch
  /\ current_gen' = IF k >= 3 THEN file.current_generation ELSE current_gen
  /\ n_particles' = IF k >= 4 THEN file.n_particles ELSE n_particles

\* read_particle_restart, every dataset read.
ReadOk ==
  /\ pc = "Reading"
  /\ ReadContext(NFields)
  /\ previous_run_mode' = DecodeMode(file.run_mode, previous_run_mode)
  /\ p' = SetLast(ConvertMG(ReadFields(p, file, NFields), run_CE))
  /\ pc' = "Loaded"
  /\ UNCHANGED <<error, file, verbosity, run_CE, write_all_tracks, total_gen,
                 tallies, tallies0, overall_gen, seeds, transported, printed>>

\* read_particle_restart when file_open (k = 0) or the read of dataset k + 1
\* fails: the failure is fatal and ends the process where it happens.
ReadFail ==
  /\ pc = "Reading"
  /\ \E k \in 0..(NFields - 1) :
       /\ ReadContext(k)
       /\ previous_run_mode' =
            IF k >= 5 THEN DecodeMode(file.run_mode, previous_run_mode)
            ELSE previous_run_mode
       /\ p' = ReadFields(p, file, k)
  /\ pc' = "Aborted"
  /\ error' = "decode"
  /\ UNCHANGED <<file, verbosity, run_CE, write_all_tracks, total_gen,
                 tallies, tallies0, overall_gen, seeds, transported, printed>>

(***************************************************************************)
(* run_particle_restart                                                    *)
(***************************************************************************)

\* Lines 72-79: verbosity, the particle, the unassigned run mode variable.
Begin_clearsFirst ==
  /\ pc = "Idle"
  /\ verbosity' = MaxVerbosity
  /\ p' = DefaultParticle
  /\ previous_run_mode' \in Indeterminate
  /\ tallies' = <<>>
  /\ pc' = "Reading"
  /\ UNCHANGED <<error, file, run_CE, write_all_tracks, current_batch,
                 gen_per_batch, current_gen, n_particles, total_gen,
                 tallies0, overall_gen, seeds, transported, printed>>

Begin ==
  /\ pc = "Idle"
  /\ verbosity' = MaxVerbosity
  /\ p' = DefaultParticle
  /\ previous_run_mode' \in Indeterminate
  /\ pc' = "Reading"
  /\ UNCHANGED <<error, file, run_CE, write_all_tracks, current_batch,
                 gen_per_batch, current_gen, n_particles, total_gen, tallies,
                 tallies0, overall_gen, seeds, transported, printed>>

\* Line 83: the track is written if that was requested.
WriteTrack(q, all) == IF all THEN [q EXCEPT !.write_track_ = TRUE] ELSE q

\* Line 86: model::tallies.clear().
ClearTallies_keep(t) == t

ClearTallies(t) == <<>>

\* Lines 90-100: the seed for a run mode the switch recognises.  The sum is
\* int arithmetic and the product int64_t; the bounded values stay far
\* below either width.
particle_seed_noMinusOne(mode, tg, og, np, id) ==
  IF mode = RUN_MODE_EIGENVALUE THEN (tg + og) * np + id ELSE id

particle_seed_fixedAsEigen(mode, tg, og, np, id) ==
  (tg + og - 1) * np + id

particle_seed(mode, tg, og, np, id) ==
  IF mode = RUN_MODE_EIGENVALUE THEN (tg + og - 1) * np + id ELSE id

\* Lines 97-99: the switch's default.
UnexpectedRunMode(mode) ==
  mode \notin {RUN_MODE_EIGENVALUE, RUN_MODE_FIXEDSOURCE}

\* Lines 83-101 when the switch finds a run mode: the seed is set.
Seed ==
  /\ pc = "Loaded"
  /\ ~UnexpectedRunMode(previous_run_mode)
  /\ p' = WriteTrack(p, write_all_tracks)
  /\ tallies' = ClearTallies(tallies)
  /\ \E og \in OverallGens :
       /\ overall_gen' = og
       /\ seeds' = Append(seeds, particle_seed(previous_run_mode, total_gen, og,
                                               n_particles, p.id_))
  /\ pc' = "Seeded"
  /\ UNCHANGED <<error, file, verbosity, run_CE, write_all_tracks,
                 current_batch, gen_per_batch, current_gen, n_particles,
                 total_gen, tallies0, previous_run_mode, transported, printed>>

\* Lines 83-99 when the switch reaches its default: std::runtime_error.
SeedThrow ==
  /\ pc = "Loaded"
  /\ UnexpectedRunMode(previous_run_mode)
  /\ p' = WriteTrack(p, write_all_tracks)
  /\ tallies' = ClearTallies(tallies)
  /\ pc' = "Aborted"
  /\ error' = "runmode"
  /\ UNCHANGED <<file, verbosity, run_CE, write_all_tracks, current_batch,
                 gen_per_batch, current_gen, n_particles, total_gen, tallies0,
                 previous_run_mode, overall_gen, seeds, transported, printed>>

\* Line 104: p.transport() is called.
Transport ==
  /\ pc = "Seeded"
  /\ transported' = Append(transported, p)
  /\ pc' = "Transporting"
  /\ UNCHANGED <<error, file, verbosity, run_CE, write_all_tracks,
                 current_batch, gen_per_batch, current_gen, n_particles,
                 total_gen, tallies, tallies0, p, previous_run_mode,
                 overall_gen, seeds, printed>>

\* How a history ends inside p.transport(), which is opaque here.
TerminalConditions == {"absorption", "leakage", "cutoff"}

\* The particle p.transport() leaves behind when it returns.
TransportOutcome(q, o) ==
  [q EXCEPT !.alive_ = FALSE, !.wgt_ = IF o = "absorption" THEN 0 ELSE @]

\* Line 104 when p.transport() raises an error: line 104 is in no try block,
\* so the error leaves run_particle_restart and line 107 is not reached.
TransportFail ==
  /\ pc = "Transporting"
  /\ pc' = "Aborted"
  /\ error' = "transport"
  /\ UNCHANGED <<file, verbosity, run_CE, write_all_tracks, current_batch,
                 gen_per_batch, current_gen, n_particles, total_gen, tallies,
                 tallies0, p, previous_run_mode, overall_gen, seeds,
                 transported, printed>>

\* Line 107: print_particle(&p).
print_particle_skipped(log, q) == log

print_particle(log, q) == Append(log, q)

\* Lines 104-107: p.transport() returns and the particle is printed.
Report ==
  /\ pc = "Transporting"
  /\ \E o \in TerminalConditions :
       /\ p' = TransportOutcome(p, o)
       /\ printed' = print_particle(printed, p')
  /\ pc' = "Reported"
  /\ UNCHANGED <<error, file, verbosity, run_CE, write_all_tracks,
                 current_batch, gen_per_batch, current_gen, n_particles,
                 total_gen, tallies, tallies0, previous_run_mode,
                 overall_gen, seeds, transported>>

Next ==
  \/ Begin \/ ReadOk \/ ReadFail \/ Seed \/ SeedThrow \/ Transport
  \/ TransportFail \/ Report

Spec == Init /\ [][Next]_vars

(***************************************************************************)
(* Properties                                                              *)
(***************************************************************************)

\* C1: when the file's run mode is "eigenvalue", the one value handed to
\* set_particle_seed is (total_gen + overall_generation() - 1) * n_particles
\* + id, with n_particles and id as stored in the file.
C1_EigenvalueSeed ==
  (file.run_mode = "eigenvalue" /\ seeds # <<>>) =>
     seeds = <<(total_gen + overall_gen - 1) * file.n_particles + file.id>>

\* The case of total_gen 2, overall generation 3, 1000 particles, id 47.
C1_Witness ==
  /\ file.run_mode = "eigenvalue"
  /\ total_gen = 2 /\ overall_gen = 3
  /\ file.n_particles = 1000 /\ file.id = 47
  /\ seeds = <<4047>>

\* C2: when the file's run mode is "fixed source", the one value handed to
\* set_particle_seed is the id stored in the file, whatever the batch, the
\* generation, the population and total_gen are.
C2_FixedSourceSeed ==
  (file.run_mode = "fixed source" /\ seeds # <<>>) => seeds = <<file.id>>

C2_Witness ==
  /\ file.run_mode = "fixed source"
  /\ file.id = 9 /\ file.n_particles = 1000
  /\ total_gen = 2 /\ overall_gen = 3
  /\ seeds = <<9>>

\* C3: with a run mode string that is neither "eigenvalue" nor "fixed
\* source", read_particle_restart never returns: the execution stays before
\* the end of the read or has aborted with the decode error.
C3_DecoderRejects ==
  (file.run_mode \notin RecognizedModes) =>
     \/ pc \in {"Idle", "Reading"}
     \/ (pc = "Aborted" /\ error = "decode")

\* C4: with a run mode string outside the two recognised values
\* set_particle_seed is never called, the particle is never transported and
\* nothing is printed.
C4_UnknownModeAborts ==
  (file.run_mode \notin RecognizedModes) =>
     (seeds = <<>> /\ transported = <<>> /\ printed = <<>>)

\* C5: when read_particle_restart has returned, every last attribute equals
\* its live attribute, and in multi-group mode E_last_ and g_last_ are the
\* group average energy and the group, not the stored number.
C5_LastEqualsLive ==
  (pc = "Loaded") =>
     /\ p.wgt_last_ = p.wgt_
     /\ p.r_last_ = p.r /\ p.r_last_current_ = p.r
     /\ p.u_last_ = p.u
     /\ p.E_last_ = p.E_
     /\ p.g_last_ = p.g_
     /\ ~run_CE => /\ p.g_last_ = ToInt(file.energy)
                   /\ p.E_last_ = energy_bin_avg[ToInt(file.energy)]

\* Multi-group, stored energy 1.5: group 1, whose average energy is 3.5.
C5_Witness ==
  /\ pc = "Loaded" /\ ~run_CE
  /\ file.energy = 3
  /\ p.g_last_ = 1 /\ p.E_last_ = energy_bin_avg[1]
  /\ p.E_last_ # file.energy
  /\ p.r_last_ = <<1, 2, 3>> /\ p.wgt_last_ = 1

\* C6: when read_particle_restart has returned, in multi-group mode the group
\* is the stored energy as an integer and the energy is energy_bin_avg of that
\* group; in continuous-energy mode the energy is the stored number and the
\* group is the one the particle was constructed with.
C6_EnergyByMode ==
  (pc = "Loaded") =>
     IF ~run_CE
       THEN p.g_ = ToInt(file.energy) /\ p.E_ = energy_bin_avg[p.g_]
       ELSE p.E_ = file.energy /\ p.g_ = DefaultParticle.g_

C6_Witness ==
  /\ pc = "Loaded" /\ run_CE
  /\ file.energy = 3
  /\ p.E_ = 3 /\ p.g_ = 0

\* C7, as claimed: when run_particle_restart has ended, by the report or by
\* an abort, model::tallies is empty.
C7_EmptyAfterAnyEnd == (pc \in {"Reported", "Aborted"}) => tallies = <<>>

\* C7, amended: when run_particle_restart has ended by the report, by the
\* run mode error or by an error of p.transport(), model::tallies is empty
\* whatever it held; when it ended by a failed read, model::tallies is as it
\* was.
C7_EmptyUnlessReadFailed ==
  /\ (pc = "Reported" \/ (pc = "Aborted" /\ error # "decode")) => tallies = <<>>
  /\ (pc = "Aborted" /\ error = "decode") => tallies = tallies0

C7_Witness ==
  /\ pc = "Reported"
  /\ tallies0 # <<>>
  /\ tallies = <<>>

\* C8, as claimed: an execution steps Idle, Loaded, Seeded, Transporting,
\* Reported in that order and never back, it aborts only from Idle or Loaded,
\* and an execution on a valid checkpoint (recognised run mode, every dataset
\* read) that has ended has transported the particle read from the file
\* exactly once and printed exactly once, after the transport.
C8_AbortOnlyBeforeSeed ==
  [][ /\ (pc' # pc) =>
           <<pc, pc'>> \in {<<"Idle", "Reading">>, <<"Reading", "Loaded">>,
                            <<"Reading", "Aborted">>, <<"Loaded", "Seeded">>,
                            <<"Loaded", "Aborted">>, <<"Seeded", "Transporting">>,
                            <<"Transporting", "Reported">>}
      /\ Len(transported') <= 1
      /\ (printed' # <<>>) => (pc' = "Reported")
      /\ ( /\ pc' \in {"Reported", "Aborted"}
           /\ file.run_mode \in RecognizedModes
           /\ error' # "decode" ) =>
           (Len(transported') = 1 /\ Len(printed') = 1) ]_vars

\* C8, amended: an execution steps Idle, Loaded, Seeded, Transporting,
\* Reported in that order and never back; it aborts from Idle (a failed
\* read), from Loaded (the run mode error, never with a recognised run mode
\* string) or from Transporting (an error of p.transport()); on a valid
\* checkpoint whose read succeeds the particle read from the file is
\* transported exactly once, and it is printed exactly once, after the
\* transport, if p.transport() returns, and not at all if it fails.
C8_StageOrder ==
  [][ /\ (pc' # pc) =>
           <<pc, pc'>> \in {<<"Idle", "Reading">>, <<"Reading", "Loaded">>,
                            <<"Reading", "Aborted">>, <<"Loaded", "Seeded">>,
                            <<"Loaded", "Aborted">>, <<"Seeded", "Transporting">>,
                            <<"Transporting", "Reported">>,
                            <<"Transporting", "Aborted">>}
      /\ (pc' = "Aborted" /\ pc # "Aborted") =>
           error' = CASE pc = "Reading" -> "decode"
                      [] pc = "Loaded" -> "runmode"
                      [] OTHER -> "transport"
      /\ (error' = "runmode") => (file.run_mode \notin RecognizedModes)
      /\ Len(transported') <= 1
      /\ (printed' # <<>>) => (pc' = "Reported")
      /\ ( /\ pc' \in {"Reported", "Aborted"}
           /\ file.run_mode \in RecognizedModes
           /\ error' # "decode" ) =>
           /\ Len(transported') = 1
           /\ transported'[1].id_ = file.id
           /\ transported'[1].type_ = file.type
           /\ transported'[1].wgt_ = file.weight
           /\ transported'[1].r = file.xyz
           /\ transported'[1].u = file.uvw
           /\ transported'[1].E_ = IF run_CE THEN file.energy
                                   ELSE energy_bin_avg[ToInt(file.energy)]
           /\ Len(printed') = IF pc' = "Reported" THEN 1 ELSE 0 ]_vars

\* run_mode "fixed source", id 9, weight 1, continuous energy: seed 9, one
\* transport of that particle, one report of what the transport left.
C8_Witness ==
  /\ pc = "Reported"
  /\ file.run_mode = "fixed source" /\ file.id = 9 /\ run_CE
  /\ seeds = <<9>>
  /\ Len(transported) = 1 /\ transported[1].id_ = 9 /\ transported[1].alive_
  /\ Len(printed) = 1 /\ printed[1].id_ = 9 /\ ~printed[1].alive_

\* C9: when p.transport() is called, verbosity is 10, model::tallies is
\* empty, the one seed that was set is the seed of the run mode stored in the
\* file (which is therefore one of the two run modes that have a seed), and
\* the particle writes its track if all tracks were requested.
C9_AtTransport ==
  (pc = "Transporting") =>
     /\ verbosity = MaxVerbosity
     /\ tallies = <<>>
     /\ Len(seeds) = 1
     /\ file.run_mode \in RecognizedModes
     /\ (file.run_mode = "eigenvalue") =>
          seeds[1] = (total_gen + overall_gen - 1) * file.n_particles + file.id
     /\ (file.run_mode = "fixed source") => seeds[1] = file.id
     /\ write_all_tracks => transported[Len(transported)].write_track_

\* C10: when a read of read_particle_restart failed, model::tallies is as it
\* was, set_particle_seed was never called, the particle was never transported
\* and nothing was printed.
C10_ReadFailureUsesNothing ==
  (pc = "Aborted" /\ error = "decode") =>
     /\ tallies = tallies0
     /\ seeds = <<>>
     /\ transported = <<>>
     /\ printed = <<>>

\* The read failed after the id was read, with tallies present.
C10_Witness ==
  /\ pc = "Aborted" /\ error = "decode"
  /\ p.id_ = file.id /\ p.wgt_ = 0
  /\ tallies0 # <<>> /\ tallies = tallies0

====
